---- MODULE Spec2Model ----
(***************************************************************************)
(* Model of src/app.py: the Flask application with two handlers,           *)
(*   POST /api/transcribe_uploaded_audio  (transcribe_uploaded_audio,      *)
(*        which delegates to transcribe_audio_file), and                   *)
(*   POST /generate-word                  (generate_word).                 *)
(*                                                                         *)
(* Spec    : NumReq transcription requests handled by concurrent worker    *)
(*           threads (app.run starts the threaded development server);     *)
(*           every file-system call is one step.                           *)
(* SpecDoc : the document builder applied to bounded payloads.             *)
(*                                                                         *)
(* Python values are records [t |-> type, ...]; strings are sequences of   *)
(* tokens, so that concatenation and number formatting are computed.       *)
(***************************************************************************)
EXTENDS Integers, Sequences, FiniteSets, TLC

VARIABLES
    AUDIO_PROCESSING_ENABLED, \* module flag set by the guarded import
    fs,            \* the file system: path -> NoFile or the request that wrote the file
    pc,            \* per request: position in the handler
    upload,        \* per request: the multipart form it carries
    wav_path,      \* per request: local wav_path of transcribe_audio_file
    result,        \* per request: what transcribe_audio_file returned
    resp,          \* per request: the HTTP response
    hist,          \* per request: history (calls, saves, removals) for the properties
    docReq,        \* /generate-word: the request being answered
    docResp        \* /generate-word: its response

vars == <<AUDIO_PROCESSING_ENABLED, fs, pc, upload, wav_path, result,
          resp, hist, docReq, docResp>>

transVars == <<AUDIO_PROCESSING_ENABLED, fs, pc, upload, wav_path,
               result, resp, hist>>

docVars == <<docReq, docResp>>

----------------------------------------------------------------------------
(* Bounds *)

NumReq == 2

MaxItems == 2

Requests == 1..NumReq

----------------------------------------------------------------------------
(* Python values *)

PyNone == [t |-> "none"]

PyStr(s) == [t |-> "str", v |-> s]

PyNum(n) == [t |-> "num", v |-> n]

PyList(xs) == [t |-> "list", v |-> xs]

PyDict(d) == [t |-> "dict", v |-> d]

\* bool(x) as Python computes it for the value kinds above
Truthy(x) ==
    CASE x.t = "none" -> FALSE
      [] x.t = "str"  -> x.v # <<>>
      [] x.t = "num"  -> x.v # 0
      [] x.t = "list" -> x.v # <<>>
      [] x.t = "dict" -> DOMAIN x.v # {}
      [] OTHER        -> TRUE

----------------------------------------------------------------------------
(* Number formatting: str(n) for n >= 0, as a sequence of digit tokens *)

Digit(d) == <<"0", "1", "2", "3", "4", "5", "6", "7", "8", "9">>[d + 1]

RECURSIVE Str(_)

Str(n) == IF n < 10 THEN <<Digit(n)>> ELSE Str(n \div 10) \o <<Digit(n % 10)>>

----------------------------------------------------------------------------
(* The transcription endpoint *)

NoFile == 0

\* a file is identified by the request whose handler wrote it
File(r) == r

\* uploaded file names: <<stem, extension>>; <<>> is the empty filename
Filenames == {<<>>, <<"a", ".WAV">>, <<"a", ".mp3">>, <<"b", ".mp3">>}

Forms == {[hasField |-> FALSE, filename |-> <<>>]}
         \cup {[hasField |-> TRUE, filename |-> f] : f \in Filenames}

WavPath == <<"temp_audio.wav">>

TmpPath(f) == <<"/tmp">> \o f

Paths == {TmpPath(f) : f \in Filenames \ {<<>>}} \cup {WavPath}

Lower(s) == IF s = ".WAV" THEN ".wav" ELSE s

EndsWithWav(p) == Len(p) > 0 /\ Lower(p[Len(p)]) = ".wav"

audio_path(r) == TmpPath(upload[r].filename)

Exists(p) == fs[p] # NoFile

NoHist == [calls |-> 0, saves |-> 0, invoked |-> 0, exported |-> FALSE,
           recorded |-> FALSE, removeFailed |-> "none"]

NoForm == [hasField |-> FALSE, filename |-> <<>>]

NoResp == [status |-> 0]

NotReturned == [state |-> "none"]

Returned(text, error) == [state |-> "returned", text |-> text, error |-> error]

Raised(e) == [state |-> "raised", exc |-> e]

Json(status, body) == [status |-> status, body |-> body]

\* an exception leaving the view function: the framework answers 500
Unhandled(e) == [status |-> 500, unhandled |-> e]

Init ==
    /\ AUDIO_PROCESSING_ENABLED \in BOOLEAN
    /\ fs = [p \in Paths |-> NoFile]
    /\ pc = [r \in Requests |-> "idle"]
    /\ upload = [r \in Requests |-> NoForm]
    /\ wav_path = [r \in Requests |-> <<>>]
    /\ result = [r \in Requests |-> NotReturned]
    /\ resp = [r \in Requests |-> NoResp]
    /\ hist = [r \in Requests |-> NoHist]
    /\ docReq = [kind |-> "none"]
    /\ docResp = [status |-> 0]

Goto(r, l) == pc' = [pc EXCEPT ![r] = l]

\* variant of Validate: the empty-filename check is missing
ValidateFieldOnly(form) ==
    IF ~form.hasField
    THEN Json(400, [success |-> FALSE,
                    message |-> <<"No audio file part in the request">>])
    ELSE NoResp

\* lines 202-207: the two validation checks of transcribe_uploaded_audio
Validate(form) ==
    IF ~form.hasField
    THEN Json(400, [success |-> FALSE,
                    message |-> <<"No audio file part in the request">>])
    ELSE IF form.filename = <<>>
    THEN Json(400, [success |-> FALSE, message |-> <<"No selected audio file">>])
    ELSE NoResp

\* a request arrives and is validated (lines 197-209)
Receive(r) ==
    /\ pc[r] = "idle"
    /\ \E form \in Forms :
         /\ upload' = [upload EXCEPT ![r] = form]
         /\ IF Validate(form) # NoResp
            THEN /\ resp' = [resp EXCEPT ![r] = Validate(form)]
                 /\ Goto(r, "done")
            ELSE /\ resp' = resp
                 /\ Goto(r, "save")
    /\ UNCHANGED <<AUDIO_PROCESSING_ENABLED, fs, wav_path, result, hist, docVars>>

\* lines 211-212: audio_file.save(temp_audio_path); the write may fail
SaveUpload(r) ==
    /\ pc[r] = "save"
    /\ \/ /\ fs' = [fs EXCEPT ![audio_path(r)] = File(r)]
          /\ hist' = [hist EXCEPT ![r].saves = @ + 1]
          /\ Goto(r, "adapter")
          /\ resp' = resp
       \/ /\ resp' = [resp EXCEPT ![r] = Unhandled("OSError")]
          /\ Goto(r, "done")
          /\ UNCHANGED <<fs, hist>>
    /\ UNCHANGED <<AUDIO_PROCESSING_ENABLED, upload, wav_path, result, docVars>>

\* lines 44-50 and 55-56: entry of transcribe_audio_file
TranscribeEnter(r) ==
    /\ pc[r] = "adapter"
    /\ hist' = [hist EXCEPT ![r].invoked = @ + 1]
    /\ IF ~AUDIO_PROCESSING_ENABLED
       THEN /\ result' = [result EXCEPT ![r] =
                   Returned(PyNone, PyStr(<<"Audio processing libraries not available.">>))]
            /\ Goto(r, "remove_upload")
       ELSE /\ result' = result
            /\ IF ~EndsWithWav(audio_path(r))
               THEN Goto(r, "from_file")
               ELSE Goto(r, "load")
    /\ UNCHANGED <<AUDIO_PROCESSING_ENABLED, fs, upload, wav_path, resp, docVars>>

\* line 71: the message of the catch-all clause; e stands for str(e)
GenericError(e) == PyStr(<<"An error occurred during audio transcription: ", e>>)

\* lines 51-52: AudioSegment.from_file(audio_path); wav_path is bound after it
FromFile(r) ==
    /\ pc[r] = "from_file"
    /\ \/ /\ Exists(audio_path(r))
          /\ wav_path' = [wav_path EXCEPT ![r] = WavPath]
          /\ Goto(r, "export")
          /\ result' = result
       \/ /\ result' = [result EXCEPT ![r] = Returned(PyNone,
                 GenericError("e"))]
          /\ Goto(r, "finally")
          /\ wav_path' = wav_path
    /\ UNCHANGED <<AUDIO_PROCESSING_ENABLED, fs, upload, resp, hist, docVars>>

\* line 53: audio.export(wav_path, format="wav"); a failed export may leave a file
Export(r) ==
    /\ pc[r] = "export"
    /\ \/ /\ fs' = [fs EXCEPT ![wav_path[r]] = File(r)]
          /\ hist' = [hist EXCEPT ![r].exported = TRUE]
          /\ Goto(r, "load")
          /\ result' = result
       \/ /\ \/ /\ fs' = [fs EXCEPT ![wav_path[r]] = File(r)]
                /\ hist' = [hist EXCEPT ![r].exported = TRUE]
             \/ UNCHANGED <<fs, hist>>
          /\ result' = [result EXCEPT ![r] = Returned(PyNone, GenericError("e"))]
          /\ Goto(r, "finally")
    /\ UNCHANGED <<AUDIO_PROCESSING_ENABLED, upload, wav_path, resp, docVars>>

\* the path sr.AudioFile was built on (lines 54, 56)
SourcePath(r) == IF wav_path[r] # <<>> THEN wav_path[r] ELSE audio_path(r)

\* lines 58-61: open the source, calibrate, record the whole file
Load(r) ==
    /\ pc[r] = "load"
    /\ \/ /\ Exists(SourcePath(r))
          /\ hist' = [hist EXCEPT ![r].recorded = TRUE]
          /\ Goto(r, "recognize")
          /\ result' = result
       \/ /\ result' = [result EXCEPT ![r] = Returned(PyNone,
                 GenericError("e"))]
          /\ Goto(r, "finally")
          /\ hist' = hist
    /\ UNCHANGED <<AUDIO_PROCESSING_ENABLED, fs, upload, wav_path, resp, docVars>>

\* a non-empty transcript returned by the recognition service
Transcript == <<"transcript">>

\* variant of Recognize: a RequestError is retried once
RecognizeRetry(r) ==
    /\ pc[r] = "recognize"
    /\ hist' = [hist EXCEPT ![r].calls = @ + 1]
    /\ \/ /\ hist[r].calls = 0
          /\ UNCHANGED <<pc, result>>
       \/ /\ result' = [result EXCEPT ![r] = Returned(PyStr(Transcript), PyNone)]
          /\ Goto(r, "finally")
    /\ UNCHANGED <<AUDIO_PROCESSING_ENABLED, fs, upload, wav_path, resp, docVars>>

\* lines 64-71: r.recognize_google(audio_data) and the three except clauses
Recognize(r) ==
    /\ pc[r] = "recognize"
    /\ hist' = [hist EXCEPT ![r].calls = @ + 1]
    /\ \E out \in {"text", "empty", "UnknownValueError", "RequestError", "Exception"} :
         result' = [result EXCEPT ![r] =
            CASE out = "text"  -> Returned(PyStr(Transcript), PyNone)
              [] out = "empty" -> Returned(PyStr(<<>>), PyNone)
              [] out = "UnknownValueError" -> Returned(PyNone,
                     PyStr(<<"Google Speech Recognition could not understand audio">>))
              [] out = "RequestError" -> Returned(PyNone,
                     PyStr(<<"Could not request results from Google Speech Recognition service; ",
                             "RequestError">>))
              [] OTHER -> Returned(PyNone, GenericError("e"))]
    /\ Goto(r, "finally")
    /\ UNCHANGED <<AUDIO_PROCESSING_ENABLED, fs, upload, wav_path, resp, docVars>>

\* variant of FinallyExists: no finally clause, the converted file is left behind
FinallyNoCleanup(r) ==
    /\ pc[r] = "finally"
    /\ Goto(r, "remove_upload")
    /\ UNCHANGED <<AUDIO_PROCESSING_ENABLED, fs, upload, wav_path, result,
                   resp, hist, docVars>>

\* line 74: 'wav_path' in locals() and os.path.exists(wav_path)
FinallyExists(r) ==
    /\ pc[r] = "finally"
    /\ IF wav_path[r] # <<>> /\ Exists(wav_path[r])
       THEN Goto(r, "remove_wav")
       ELSE Goto(r, "remove_upload")
    /\ UNCHANGED <<AUDIO_PROCESSING_ENABLED, fs, upload, wav_path, result,
                   resp, hist, docVars>>

\* line 75: os.remove(wav_path) inside finally; an exception it raises replaces
\* the return value and leaves line 214, so line 215 is not run
RemoveWav(r) ==
    /\ pc[r] = "remove_wav"
    /\ \/ /\ Exists(wav_path[r])
          /\ fs' = [fs EXCEPT ![wav_path[r]] = NoFile]
          /\ Goto(r, "remove_upload")
          /\ UNCHANGED <<result, resp, hist>>
       \/ LET e == IF Exists(wav_path[r]) THEN "PermissionError" ELSE "FileNotFoundError"
          IN  /\ result' = [result EXCEPT ![r] = Raised(e)]
              /\ resp' = [resp EXCEPT ![r] = Unhandled(e)]
              /\ hist' = [hist EXCEPT ![r].removeFailed = "wav"]
              /\ Goto(r, "done")
              /\ fs' = fs
    /\ UNCHANGED <<AUDIO_PROCESSING_ENABLED, upload, wav_path, docVars>>

\* lines 217-222: if text: ... else: ...
Response(res) ==
    IF Truthy(res.text)
    THEN Json(200, [success |-> TRUE, transcribedText |-> res.text])
    ELSE Json(500, [success |-> FALSE, message |-> res.error])

\* line 215: os.remove(temp_audio_path), outside any try, and then the
\* response of lines 217-222
RemoveUpload(r) ==
    /\ pc[r] = "remove_upload"
    /\ \/ /\ Exists(audio_path(r))
          /\ fs' = [fs EXCEPT ![audio_path(r)] = NoFile]
          /\ resp' = [resp EXCEPT ![r] = Response(result[r])]
          /\ hist' = hist
       \/ LET e == IF Exists(audio_path(r)) THEN "PermissionError" ELSE "FileNotFoundError"
          IN  /\ resp' = [resp EXCEPT ![r] = Unhandled(e)]
              /\ hist' = [hist EXCEPT ![r].removeFailed = "upload"]
              /\ fs' = fs
    /\ Goto(r, "done")
    /\ UNCHANGED <<AUDIO_PROCESSING_ENABLED, upload, wav_path, result, docVars>>

Next ==
    \E r \in Requests :
        \/ Receive(r)
        \/ SaveUpload(r)
        \/ TranscribeEnter(r)
        \/ FromFile(r)
        \/ Export(r)
        \/ Load(r)
        \/ Recognize(r)
        \/ FinallyExists(r)
        \/ RemoveWav(r)
        \/ RemoveUpload(r)

Spec == Init /\ [][Next]_vars

----------------------------------------------------------------------------
(* Properties of the transcription endpoint, checked under Spec *)

\* transcribe_audio_file was called for r and has returned or raised
AdapterLeft(r) == hist[r].invoked = 1 /\ pc[r] \in {"remove_upload", "done"}

\* the response came from the view function, not from the framework's error handler
FromHandler(r) == "body" \in DOMAIN resp[r]

C2_UploadDeletedBeforeResponse ==
    \A r \in Requests :
        resp[r] # NoResp /\ hist[r].saves = 1
            => fs[audio_path(r)] # File(r) \/ hist[r].removeFailed = "upload"

\* C3: a failed removal of a temporary file is swallowed: the request is still
\* answered by the handler with the adapter's result, never by an error raised
\* out of the handler.
C3_CleanupFailureSwallowed ==
    \A r \in Requests :
        hist[r].removeFailed # "none" /\ pc[r] = "done"
            => /\ FromHandler(r)
               /\ result[r].state = "returned"

\* C4 as stated: every invocation of the adapter calls the recognition service
\* exactly once.
C4_ExactlyOneServiceCall ==
    \A r \in Requests : AdapterLeft(r) => hist[r].calls = 1

\* C4 amended: an invocation never calls the recognition service more than
\* once; it calls it exactly once when it has recorded the audio, and not at
\* all when the feature is disabled or conversion or loading failed.
C4_AtMostOneServiceCall ==
    \A r \in Requests :
        /\ hist[r].calls <= 1
        /\ AdapterLeft(r) => hist[r].calls = (IF hist[r].recorded THEN 1 ELSE 0)
        /\ AdapterLeft(r) /\ ~AUDIO_PROCESSING_ENABLED => hist[r].calls = 0

C4_Witness_ServiceErrorNotRetried ==
    \E r \in Requests :
        /\ AdapterLeft(r)
        /\ hist[r].calls = 1
        /\ result[r].state = "returned"
        /\ result[r].error # PyNone
        /\ \E q \in Requests : AdapterLeft(q) /\ hist[q].calls = 0

\* C5: the adapter result never has both text and error; transcript text
\* (the empty transcript included) is answered 200 with the text, an error is
\* answered 500 with the error, and a success-false 500 carries a non-null message.
C5_ResponseMatchesResult ==
    \A r \in Requests :
        pc[r] = "done" /\ FromHandler(r) /\ result[r].state = "returned"
            => /\ ~(result[r].text # PyNone /\ result[r].error # PyNone)
               /\ result[r].text # PyNone
                    => resp[r] = Json(200, [success |-> TRUE,
                                            transcribedText |-> result[r].text])
               /\ result[r].error # PyNone
                    => resp[r] = Json(500, [success |-> FALSE,
                                            message |-> result[r].error])
               /\ resp[r].status = 500 => resp[r].body.message # PyNone

\* C9: a request without the audio_file field is answered 400 'No audio file
\* part in the request', one with an empty filename 400 'No selected audio
\* file'; neither writes a temporary file nor invokes the adapter.
C9_InvalidUploadRejected ==
    \A r \in Requests :
        pc[r] # "idle" /\ (~upload[r].hasField \/ upload[r].filename = <<>>)
            => /\ pc[r] = "done"
               /\ resp[r] = Json(400, [success |-> FALSE, message |->
                      IF ~upload[r].hasField
                      THEN <<"No audio file part in the request">>
                      ELSE <<"No selected audio file">>])
               /\ hist[r].saves = 0
               /\ hist[r].invoked = 0
               /\ \A p \in Paths : fs[p] # File(r)

C9_Witness_BothRejections ==
    \E r, q \in Requests :
        /\ pc[r] = "done" /\ ~upload[r].hasField
        /\ pc[q] = "done" /\ upload[q].hasField /\ upload[q].filename = <<>>

\* the upload of r is saved and r has not yet tried to delete it
HoldsUpload(r) ==
    pc[r] \in {"adapter", "from_file", "export", "load", "recognize", "finally",
               "remove_wav", "remove_upload"}

\* r has written its converted file and has not yet tried to delete it
HoldsWav(r) ==
    hist[r].exported /\ pc[r] \in {"load", "recognize", "finally", "remove_wav"}

\* C10: under every interleaving, a temporary file a request has written and
\* not yet deleted is still its own: no other request overwrote or deleted it.
C10_NoInterference ==
    \A r \in Requests :
        /\ HoldsUpload(r) => fs[audio_path(r)] = File(r)
        /\ HoldsWav(r) => fs[WavPath] = File(r)

----------------------------------------------------------------------------
(* The document builder: generate_word *)

Heading(text, level) == [kind |-> "heading", level |-> level, text |-> text]

Para(text) == [kind |-> "para", text |-> text]

Table(rows) == [kind |-> "table", rows |-> rows]

\* a stage of the construction: the elements it added, or the exception it raised
Ok(els) == [ok |-> TRUE, els |-> els]

Exc(e) == [ok |-> FALSE, exc |-> e]

\* variant of Chain: a failing statement is skipped and the rest still runs
RECURSIVE ChainSkipErrors(_)

ChainSkipErrors(stages) ==
    IF stages = <<>> THEN Ok(<<>>)
    ELSE IF ~Head(stages).ok THEN ChainSkipErrors(Tail(stages))
    ELSE Ok(Head(stages).els \o ChainSkipErrors(Tail(stages)).els)

\* statements in sequence: the first exception ends the construction
RECURSIVE Chain(_)

Chain(stages) ==
    IF stages = <<>> THEN Ok(<<>>)
    ELSE IF ~Head(stages).ok THEN Head(stages)
    ELSE LET rest == Chain(Tail(stages))
         IN  IF rest.ok THEN Ok(Head(stages).els \o rest.els) ELSE rest

\* d.get(k, default) on a dict
Get(d, k, default) == IF k \in DOMAIN d.v THEN d.v[k] ELSE default

\* str(x) inside an f-string
Format(x) ==
    CASE x.t = "str"  -> x.v
      [] x.t = "none" -> <<"None">>
      [] x.t = "num"  -> Str(x.v)
      [] OTHER        -> <<"<object>">>

Empty == PyStr(<<>>)

\* lines 118-128: label and key of the fixed fields, in the order written
InfoFields ==
    << <<"Variant Name: ", "variantName">>, <<"Part Name: ", "partName">>,
       <<"Subject: ", "subject">>, <<"Meeting Number: ", "meetingNumber">>,
       <<"Title: ", "title">>, <<"Keywords: ", "keywords">>,
       <<"Meeting Date: ", "date">>, <<"Meeting Day: ", "day">>,
       <<"Meeting Time: ", "time">>, <<"Venue: ", "venue">>,
       <<"Members: ", "members">> >>

\* lines 114-130: title, the Meeting Information section, the blank paragraph
MeetingInformation(data) ==
    Ok(<<Heading(<<"Minutes of Meeting">>, 0), Heading(<<"Meeting Information">>, 1)>>
       \o [i \in 1..Len(InfoFields) |->
             Para(<<InfoFields[i][1]>> \o Format(Get(data, InfoFields[i][2], Empty)))]
       \o <<Para(<<>>)>>)

\* iterating a value: its elements, or the TypeError of a non-iterable;
\* a dict yields its keys and a string its characters
Iterate(x) ==
    CASE x.t = "list" -> Ok(x.v)
      [] x.t = "dict" -> Ok([i \in 1..Cardinality(DOMAIN x.v) |-> PyStr(<<"key">>)])
      [] x.t = "str"  -> Ok([i \in 1..Len(x.v) |-> PyStr(<<x.v[i]>>)])
      [] OTHER        -> Exc("TypeError")

\* variant of ItemParagraph: enumerate(items) without the start index 1
ItemParagraphZeroBased(i, item, field) ==
    IF item.t = "dict"
    THEN Ok(<<Para(Str(i - 1) \o <<". ">> \o Format(Get(item, field, Empty)))>>)
    ELSE Exc("AttributeError")

\* line 140: the paragraph of item i; item.get raises on a non-mapping
ItemParagraph(i, item, field) ==
    IF item.t = "dict"
    THEN Ok(<<Para(Str(i) \o <<". ">> \o Format(Get(item, field, Empty)))>>)
    ELSE Exc("AttributeError")

\* lines 133-140
add_section(title, items, field) ==
    LET it == Iterate(items)
    IN  Chain(<<Ok(<<Heading(title, 2)>>),
                Ok(IF ~Truthy(items) THEN <<Para(<<"None">>)>> ELSE <<>>),
                IF it.ok
                THEN Chain([i \in 1..Len(it.els) |-> ItemParagraph(i, it.els[i], field)])
                ELSE it>>)

HeaderRow == <<"Action", "Responsibility", "Others", "PDC", "Work Center">>

ActionKeys == <<"action", "responsibility", "others", "pdc", "workcenter">>

\* lines 157-162: one table row; cell text must be a string
ActionRow(item) ==
    IF item.t # "dict" THEN Exc("AttributeError")
    ELSE IF \E c \in 1..5 : Get(item, ActionKeys[c], Empty).t # "str"
    THEN Exc("TypeError")
    ELSE Ok(<<[c \in 1..5 |-> Get(item, ActionKeys[c], Empty).v]>>)

\* lines 146-164
ActionPoints(data) ==
    LET action_points == Get(data, "actionPoints", PyList(<<>>))
        it == Iterate(action_points)
        rows == Chain([i \in 1..Len(it.els) |-> ActionRow(it.els[i])])
    IN  Chain(<<Ok(<<Heading(<<"Action Points and Presentations">>, 2)>>),
                IF Truthy(action_points)
                THEN IF ~it.ok THEN it
                     ELSE IF ~rows.ok THEN rows
                     ELSE Ok(<<Table(<<HeaderRow>> \o rows.els)>>)
                ELSE Ok(<<Para(<<"None">>)>>)>>)

\* line 173: the footer; the clock reading is one token
Timestamp == Para(<<"\nGenerated on: ", "%Y-%m-%d %H:%M:%S">>)

\* variant of BuildDoc: the action points are added after the three list sections
BuildDocListsFirst(data) ==
    Chain(<<MeetingInformation(data),
            add_section(<<"Discussions">>, Get(data, "discussions", PyList(<<>>)), "text"),
            add_section(<<"Innovativeness / Lessons Learnt">>,
                        Get(data, "innovations", PyList(<<>>)), "text"),
            add_section(<<"Decisions">>, Get(data, "decisions", PyList(<<>>)), "text"),
            ActionPoints(data),
            Ok(<<Timestamp>>)>>)

\* lines 113-173: the document, in the order the code adds its parts
BuildDoc(data) ==
    Chain(<<MeetingInformation(data),
            add_section(<<"Discussions">>, Get(data, "discussions", PyList(<<>>)), "text"),
            ActionPoints(data),
            add_section(<<"Innovativeness / Lessons Learnt">>,
                        Get(data, "innovations", PyList(<<>>)), "text"),
            add_section(<<"Decisions">>, Get(data, "decisions", PyList(<<>>)), "text"),
            Ok(<<Timestamp>>)>>)

\* line 183: filename.replace('/', '-').replace(':', '') over one-character tokens
RECURSIVE Sanitize(_)

Sanitize(s) ==
    IF s = <<>> THEN <<>>
    ELSE (CASE Head(s) = "/" -> <<"-">>
            [] Head(s) = ":" -> <<>>
            [] OTHER         -> <<Head(s)>>) \o Sanitize(Tail(s))

\* lines 182-183
FileName(data) ==
    Sanitize(<<"MoM_">> \o Format(Get(data, "meetingNumber", PyStr(<<"Unknown">>)))
             \o <<"_">> \o Format(Get(data, "date", PyStr(<<"Unknown">>)))
             \o <<".docx">>)

\* line 193
ErrorResponse(e) == [status |-> 500, body |-> [error |-> e]]

\* lines 185-190
SendFile(els, name) ==
    [status |-> 200, as_attachment |-> TRUE, download_name |-> name,
     mimetype |-> "application/vnd.openxmlformats-officedocument.wordprocessingml.document",
     body |-> els]

\* lines 110-193: the whole try block and its except clause
GenerateWordResponse(req) ==
    IF req.json.t = "invalid" THEN ErrorResponse("BadRequest")
    ELSE IF req.json.t # "dict" THEN ErrorResponse("AttributeError")
    ELSE LET built == BuildDoc(req.json)
         IN  IF ~built.ok THEN ErrorResponse(built.exc)
             ELSE IF ~req.saveOk THEN ErrorResponse("OSError")
             ELSE SendFile(built.els, FileName(req.json))

(* Bounded payloads *)

RECURSIVE SeqsUpTo(_, _)

SeqsUpTo(S, n) ==
    IF n = 0 THEN {<<>>}
    ELSE LET shorter == SeqsUpTo(S, n - 1)
         IN  shorter \cup {Append(q, x) : q \in {t \in shorter : Len(t) = n - 1}, x \in S}

EmptyMap == [k \in {} |-> PyNone]

TextItems == {PyDict([text |-> PyStr(<<"x">>)]), PyDict([note |-> PyStr(<<"y">>)])}

Absent == [t |-> "absent"]

ListValues ==
    {Absent, PyNone, PyNum(0), PyNum(5), PyDict(EmptyMap), PyList(<<PyNum(1)>>)}
    \cup {PyList(q) : q \in SeqsUpTo(TextItems, MaxItems)}

ActionItems ==
    <<PyDict([action |-> PyStr(<<"a">>), responsibility |-> PyStr(<<"r">>),
              others |-> PyStr(<<"o">>), pdc |-> PyStr(<<"p">>),
              workcenter |-> PyStr(<<"w">>)]),
      PyDict([action |-> PyStr(<<"b">>)])>>

ActionValues ==
    {Absent, PyNone, PyNum(0), PyNum(5), PyDict(EmptyMap), PyList(<<>>),
     PyList(<<PyStr(<<"s">>)>>),
     PyList(<<ActionItems[1]>>), PyList(ActionItems)}

InfoValues ==
    {EmptyMap,
     [meetingNumber |-> PyStr(<<"1", "/", "2">>), date |-> PyStr(<<"3", ":", "4">>),
      venue |-> PyStr(<<"hall">>)]}

\* a mapping with the given fields; an absent field has no key
Record(info, disc, act, inno, deci) ==
    LET lists == [discussions |-> disc, actionPoints |-> act,
                  innovations |-> inno, decisions |-> deci]
        keys == DOMAIN info \cup {k \in DOMAIN lists : lists[k] # Absent}
    IN  PyDict([k \in keys |-> IF k \in DOMAIN info THEN info[k] ELSE lists[k]])

Payloads ==
    {[t |-> "invalid"], PyNone, PyList(<<>>), PyNum(5)}
    \cup {Record(info, disc, act, inno, deci) :
            info \in InfoValues, disc \in ListValues, act \in ActionValues,
            inno \in ListValues, deci \in ListValues}

\* one POST /generate-word request, answered
generate_word ==
    /\ docReq.kind = "none"
    /\ \E json \in Payloads, saveOk \in BOOLEAN :
         /\ docReq' = [kind |-> "post", json |-> json, saveOk |-> saveOk]
         /\ docResp' = GenerateWordResponse([json |-> json, saveOk |-> saveOk])
    /\ UNCHANGED transVars

NextDoc == generate_word

SpecDoc == Init /\ [][NextDoc]_vars

----------------------------------------------------------------------------
(* Properties of the document builder, checked under SpecDoc *)

Answered == docReq.kind = "post"

ListKeys == {"discussions", "innovations", "decisions"}

IsMapping(x) == x.t = "dict"

Has(data, k) == k \in DOMAIN data.v

HeadingTexts(els) ==
    LET hs == SelectSeq(els, LAMBDA e : e.kind = "heading")
    IN  [i \in 1..Len(hs) |-> hs[i].text[1]]

\* the response is a complete document sent as an attachment
CompleteDocument(r) ==
    /\ r.status = 200
    /\ r.as_attachment
    /\ Len(r.body) >= 20
    /\ r.body[1] = Heading(<<"Minutes of Meeting">>, 0)
    /\ r.body[Len(r.body)] = Timestamp
    /\ Len(HeadingTexts(r.body)) = 6

\* the response is the JSON object {"error": <message>} with status 500
ErrorOnly(r) ==
    /\ r.status = 500
    /\ DOMAIN r = {"status", "body"}
    /\ DOMAIN r.body = {"error"}

TwoOutcomes == CompleteDocument(docResp) \/ ErrorOnly(docResp)

\* a free-text list value the code cannot iterate or whose items it cannot read
TextListRaises(v) ==
    \/ v.t \in {"none", "num"}
    \/ v.t = "dict" /\ DOMAIN v.v # {}
    \/ v.t = "str" /\ v.v # <<>>
    \/ v.t = "list" /\ \E i \in 1..Len(v.v) : v.v[i].t # "dict"

\* an actionPoints value that reaches the table loop and fails in it
ActionPointsRaise(v) ==
    /\ v # PyNone
    /\ v # PyNum(0)
    /\ v # PyList(<<>>)
    /\ v # PyDict(EmptyMap)
    /\ v # Empty
    /\ \/ v.t # "list"
       \/ \E i \in 1..Len(v.v) :
            \/ v.v[i].t # "dict"
            \/ \E k \in DOMAIN v.v[i].v : v.v[i].v[k].t # "str"

\* the request makes some statement of the try block raise
FailureRaised(req) ==
    \/ ~IsMapping(req.json)
    \/ ~req.saveOk
    \/ \E k \in ListKeys : Has(req.json, k) /\ TextListRaises(req.json.v[k])
    \/ Has(req.json, "actionPoints") /\ ActionPointsRaise(req.json.v.actionPoints)

\* C6 as stated: the request ends with the complete document (200) or with
\* {"error": message} (500); every failure, a payload that is not a mapping
\* and a list field that is not a sequence included, gives the 500 outcome.
C6_FailureGives500 ==
    Answered =>
        /\ TwoOutcomes
        /\ FailureRaised(docReq) => ErrorOnly(docResp)
        /\ ~IsMapping(docReq.json) => ErrorOnly(docResp)
        /\ IsMapping(docReq.json)
             /\ (\E k \in ListKeys \cup {"actionPoints"} :
                    Has(docReq.json, k) /\ docReq.json.v[k].t # "list")
             => ErrorOnly(docResp)

\* C6 amended: the request ends with the complete document (200) or with
\* {"error": message} (500); the 500 outcome is given exactly when a statement
\* raised, which a payload that is not a mapping always does, while a list
\* field that is not a sequence does so only when the code iterates it: an
\* empty mapping in a list field, or null in actionPoints, renders "None".
C6_FailureGives500IffRaised ==
    Answered =>
        /\ TwoOutcomes
        /\ ErrorOnly(docResp) <=> FailureRaised(docReq)
        /\ ~IsMapping(docReq.json) => ErrorOnly(docResp)

C6_Witness_FailureAfterPartialBuild ==
    /\ Answered
    /\ ErrorOnly(docResp)
    /\ IsMapping(docReq.json)
    /\ docReq.saveOk
    /\ Has(docReq.json, "discussions") /\ Has(docReq.json, "decisions")
    /\ docReq.json.v.discussions = PyList(<<PyDict([text |-> PyStr(<<"x">>)])>>)
    /\ docReq.json.v.decisions = PyNum(5)

\* C7 as stated: title, Meeting Information, then Discussions, Innovativeness /
\* Lessons Learnt and Decisions, then Action Points and Presentations, and the
\* timestamp paragraph last.
C7_OrderListsThenActionPoints ==
    docResp.status = 200 =>
        /\ HeadingTexts(docResp.body) =
             <<"Minutes of Meeting", "Meeting Information", "Discussions",
               "Innovativeness / Lessons Learnt", "Decisions",
               "Action Points and Presentations">>
        /\ docResp.body[Len(docResp.body)] = Timestamp

\* C7 amended: title, Meeting Information, Discussions, then Action Points and
\* Presentations, then Innovativeness / Lessons Learnt and Decisions, and the
\* timestamp paragraph last.
C7_OrderActionPointsAfterDiscussions ==
    docResp.status = 200 =>
        /\ HeadingTexts(docResp.body) =
             <<"Minutes of Meeting", "Meeting Information", "Discussions",
               "Action Points and Presentations",
               "Innovativeness / Lessons Learnt", "Decisions">>
        /\ docResp.body[Len(docResp.body)] = Timestamp
        /\ \A i \in 1..(Len(docResp.body) - 1) : docResp.body[i] # Timestamp

C7_Witness_AllSectionsFilled ==
    /\ docResp.status = 200
    /\ \A k \in ListKeys :
          Has(docReq.json, k) /\ docReq.json.v[k].t = "list" /\ Len(docReq.json.v[k].v) = 2
    /\ \E i \in 1..Len(docResp.body) : docResp.body[i].kind = "table"

\* the elements of the section headed title: from its heading to the next
\* heading, or to the closing timestamp paragraph
SectionBody(els, title) ==
    LET h == CHOOSE i \in 1..Len(els) : els[i] = Heading(title, 2)
        stops == {j \in (h + 1)..Len(els) : els[j].kind = "heading" \/ j = Len(els)}
        stop == CHOOSE j \in stops : \A k \in stops : j <= k
    IN  SubSeq(els, h + 1, stop - 1)

Ordinal == <<"1", "2", "3", "4", "5", "6", "7", "8", "9">>

TextOf(item) == IF "text" \in DOMAIN item.v THEN item.v.text.v ELSE <<>>

Numbered(items) ==
    IF items = <<>>
    THEN <<Para(<<"None">>)>>
    ELSE [i \in 1..Len(items) |-> Para(<<Ordinal[i], ". ">> \o TextOf(items[i]))]

SectionTitles ==
    [discussions |-> <<"Discussions">>,
     innovations |-> <<"Innovativeness / Lessons Learnt">>,
     decisions |-> <<"Decisions">>]

\* C8: in each of the three list sections, a list of N items is rendered as
\* exactly one paragraph "None" when N = 0 or the key is absent, and otherwise
\* as exactly the N paragraphs "<i>. <text>", i from 1 in input order, an item
\* without text as "<i>. ".
C8_SectionParagraphs ==
    docResp.status = 200 =>
        \A k \in ListKeys :
            LET v == Get(docReq.json, k, PyList(<<>>))
            IN  v.t = "list" =>
                  SectionBody(docResp.body, SectionTitles[k]) = Numbered(v.v)

C8_Witness_ItemsAndNone ==
    /\ docResp.status = 200
    /\ Has(docReq.json, "discussions")
    /\ docReq.json.v.discussions =
          PyList(<<PyDict([text |-> PyStr(<<"x">>)]), PyDict([note |-> PyStr(<<"y">>)])>>)
    /\ SectionBody(docResp.body, <<"Discussions">>) =
          <<Para(<<"1", ". ", "x">>), Para(<<"2", ". ">>)>>
    /\ ~Has(docReq.json, "innovations")
    /\ Has(docReq.json, "decisions") /\ docReq.json.v.decisions = PyList(<<>>)
    /\ SectionBody(docResp.body, <<"Decisions">>) = <<Para(<<"None">>)>>

====
